---- MODULE Spec2Model ----
(***************************************************************************)
(* Time synchronisation server (Cristian's algorithm with failover between *)
(* two NTP sources, one circuit breaker per source, per-source metrics and *)
(* a bounded per-client synchronisation history).                          *)
(*                                                                         *)
(* Sources modelled:                                                       *)
(*   server/src/utils/timeUtils.ts  (cristianSyncAlgorithm, getNTPTime,    *)
(*                                   isReliableSync)                       *)
(*   server/src/config/ntpConfig.ts (breakers, NTPMetricsManager,          *)
(*                                   getNTPTimeWithCircuitBreaker)         *)
(*   server/src/controllers/TimeController.ts (syncTime, simulateNTPFailure)*)
(*                                                                         *)
(* The circuit breaker itself is the third-party opossum package; the      *)
(* repository only configures it.  Its state machine is taken from         *)
(* section 4.1 of the specification.                                       *)
(***************************************************************************)
EXTENDS Integers, Sequences, FiniteSets, TLC

(***************************************************************************)
(* Bounds of the model.                                                    *)
(***************************************************************************)
\* total number of sync requests over a run (all may be in flight together)
MaxSyncs == 2
\* the clock advances at most this many ticks
MaxTick == 1
\* milliseconds per clock tick
TickMs == 5000
\* at most this many forceFailure timers are pending at once
MaxForceTimers == 1
\* total number of simulate-failure requests over a run
MaxAdmin == 1
\* at most this many hourly resets over a run
MaxResets == 1
\* attempts pushed per client in the history specification
MaxAttempts == 52

(***************************************************************************)
(* Numbers.  JavaScript numbers in this program are epoch milliseconds     *)
(* (about 1.7e12), nanosecond stamps (about 1.7e18) and halves of          *)
(* millisecond differences.  A number is kept exactly as                   *)
(*     t * 1e12 + m * 1e6 + u + h / 2                                      *)
(* with 0 <= m, u < 1e6 and h in {0, 1}; t carries the sign.               *)
(***************************************************************************)
Base == 1000000

Num(t, m, u, h) == [t |-> t, m |-> m, u |-> u, h |-> h]

\* carry propagation from arbitrary integer digits
Norm(t, m, u, h) ==
  LET u1 == u + (h \div 2)
      m1 == m + (u1 \div Base)
  IN  Num(t + (m1 \div Base), m1 % Base, u1 % Base, h % 2)

Zero == Num(0, 0, 0, 0)
FromInt(n) == Norm(0, 0, n, 0)
\* the operands are bound to their values once
NumAdd(x, y) ==
  CHOOSE r \in {Norm(a.t + b.t, a.m + b.m, a.u + b.u, a.h + b.h) :
                  a \in {x}, b \in {y}} : TRUE
NumSub(x, y) ==
  CHOOSE r \in {Norm(a.t - b.t, a.m - b.m, a.u - b.u, a.h - b.h) :
                  a \in {x}, b \in {y}} : TRUE
NumLess(x, y) ==
  \E a \in {x}, b \in {y} :
    \/ a.t < b.t
    \/ a.t = b.t /\ a.m < b.m
    \/ a.t = b.t /\ a.m = b.m /\ a.u < b.u
    \/ a.t = b.t /\ a.m = b.m /\ a.u = b.u /\ a.h < b.h
\* x / 2 for a whole number of milliseconds x
NumHalf(x) ==
  CHOOSE r \in {LET m1 == a.m + (a.t % 2) * Base
                    u1 == a.u + (m1 % 2) * Base
                IN  Norm(a.t \div 2, m1 \div 2, u1 \div 2, u1 % 2) :
                  a \in {x}} : TRUE
\* Math.floor(x / 1e6)
NumFloorDivBase(x) == CHOOSE r \in {Norm(0, a.t, a.m, 0) : a \in {x}} : TRUE
NumAbs(x) ==
  CHOOSE r \in {IF NumLess(a, Zero) THEN NumSub(Zero, a) ELSE a : a \in {x}} : TRUE

(***************************************************************************)
(* NTP servers and the SyncResult record.                                  *)
(***************************************************************************)
Primary == "ntp.shoa.cl"
Secondary == "pool.ntp.org"
Servers == {Primary, Secondary}
NoServer == "ninguno"
\* error texts are sequences of text fragments; no error field is the empty one
NoError == <<>>

\* a plausible slip: the threshold that tells nanoseconds from milliseconds
\* is 1e15
MutNormalizeT0(clientRequestTime) ==
  IF NumLess(Num(1000, 0, 0, 0), clientRequestTime)
  THEN Norm(0, clientRequestTime.t, clientRequestTime.m, 0)
  ELSE clientRequestTime

\* if (T0 > 1e12) T0 = Math.floor(T0 / 1e6)
NsThreshold == Num(1, 0, 0, 0)
NormalizeT0(clientRequestTime) ==
  IF NumLess(NsThreshold, clientRequestTime)
  THEN NumFloorDivBase(clientRequestTime)
  ELSE clientRequestTime

\* a plausible slip: precision taken from the RTT getNTPTime measured
MutPrimaryResult(T0ms, serverTime, roundTripTime, T3) ==
  LET actualRTT == NumSub(T3, T0ms)
  IN  [success |-> TRUE, serverTime |-> serverTime, clientTime |-> T3,
       offset |-> NumSub(serverTime, NumAdd(T0ms, NumHalf(actualRTT))),
       roundTripTime |-> actualRTT, precision |-> NumHalf(roundTripTime),
       server |-> Primary, error |-> NoError]

\* success on the primary: roundTripTime is destructured from the NTP reply
\* and not used; T3 is Date.now() after the await
PrimaryResult(T0ms, serverTime, roundTripTime, T3) ==
  LET actualRTT == NumSub(T3, T0ms)
  IN  [success |-> TRUE, serverTime |-> serverTime, clientTime |-> T3,
       offset |-> NumSub(serverTime, NumAdd(T0ms, NumHalf(actualRTT))),
       roundTripTime |-> actualRTT, precision |-> NumHalf(actualRTT),
       server |-> Primary, error |-> NoError]

\* a plausible slip: the precision of the failover path is the whole round trip
MutFailoverResult(T0ms, serverTime, roundTripTime, T3) ==
  LET actualRTT == NumSub(T3, T0ms)
  IN  [success |-> TRUE, serverTime |-> serverTime, clientTime |-> T3,
       offset |-> NumSub(serverTime, NumAdd(T0ms, NumHalf(actualRTT))),
       roundTripTime |-> actualRTT, precision |-> actualRTT,
       server |-> Secondary, error |-> NoError]

\* success on the secondary after failover (a second copy of the formula)
FailoverResult(T0ms, serverTime, roundTripTime, T3) ==
  LET actualRTT == NumSub(T3, T0ms)
  IN  [success |-> TRUE, serverTime |-> serverTime, clientTime |-> T3,
       offset |-> NumSub(serverTime, NumAdd(T0ms, NumHalf(actualRTT))),
       roundTripTime |-> actualRTT, precision |-> NumHalf(actualRTT),
       server |-> Secondary, error |-> NoError]

\* a plausible slip: the text reports the secondary's cause twice
MutBothFailedText(primaryError, secondaryError) ==
  <<"Ambos servidores fallaron. Primario: ">> \o secondaryError
    \o <<". Secundario: ">> \o secondaryError

\* `Ambos servidores fallaron. Primario: ${p}. Secundario: ${s}`
BothFailedText(primaryError, secondaryError) ==
  <<"Ambos servidores fallaron. Primario: ">> \o primaryError
    \o <<". Secundario: ">> \o secondaryError

BothFailedResult(primaryError, secondaryError, dateNow) ==
  [success |-> FALSE, serverTime |-> Zero, clientTime |-> dateNow,
   offset |-> Zero, roundTripTime |-> Zero, precision |-> Zero,
   server |-> NoServer, error |-> BothFailedText(primaryError, secondaryError)]

(***************************************************************************)
(* State.                                                                  *)
(***************************************************************************)
VARIABLES
  now,              \* clock tick; Date.now() is Epoch + now * TickMs
  slot,             \* the requests in flight, one record per slot
  started,          \* sync requests received so far
  breaker,          \* per server: the circuit breaker
  metrics,          \* per server: NTPMetricsManager.metrics
  activeServer,     \* NTPMetricsManager.activeServer
  lastSyncAttempt,  \* NTPMetricsManager.lastSyncAttempt
  syncHistory,      \* TimeController.syncHistory (a Map: its domain is its keys)
  forceTimers,      \* pending setTimeout callbacks of forceFailure
  before,           \* pairs <<a, b>> of pending timers: a expires before b
  orphans,          \* per server: NTP calls cut off by the breaker timeout, reply outstanding
  ntpCalls,         \* per server: invocations of getNTPTime so far
  samples,          \* per server: updateMetrics calls so far, by outcome
  lateSeen,         \* per server: late completions that arrived so far
  resets,           \* hourly resets so far
  admins,           \* simulate-failure requests so far
  pure,             \* inputs and result of the pure-function specifications
  pushed            \* history specification: every attempt pushed, per client

engineVars == <<now, slot, started, breaker, metrics, activeServer, lastSyncAttempt,
                syncHistory, forceTimers, before, orphans, ntpCalls, samples,
                lateSeen, resets, admins>>
vars == <<now, slot, started, breaker, metrics, activeServer, lastSyncAttempt,
          syncHistory, forceTimers, before, orphans, ntpCalls, samples,
          lateSeen, resets, admins, pure, pushed>>

Slots == 1..MaxSyncs
ClientIds == {"c1", "c2"}

\* Date.now() at clock tick n: present-day epoch milliseconds
Epoch == Num(1, 700000, 0, 0)
DateNow(n) == NumAdd(Epoch, FromInt(n * TickMs))

(***************************************************************************)
(* Configuration (circuitBreakerOptions, TimeController).                  *)
(***************************************************************************)
timeout == 5000
errorThresholdPercentage == 50
resetTimeout == 30000
HistoryCap == 50
\* the durations the simulate-failure route accepts: the shortest and the longest
ForceDurations == {1000, 300000}

(***************************************************************************)
(* The mutable state the handlers share, as one record, so that the        *)
(* statements of a handler compose in program order.                       *)
(***************************************************************************)
World ==
  [breaker |-> breaker, metrics |-> metrics, activeServer |-> activeServer,
   lastSyncAttempt |-> lastSyncAttempt, forceTimers |-> forceTimers,
   before |-> before, ntpCalls |-> ntpCalls, samples |-> samples]

Commit(w) ==
  /\ breaker' = w.breaker
  /\ metrics' = w.metrics
  /\ activeServer' = w.activeServer
  /\ lastSyncAttempt' = w.lastSyncAttempt
  /\ forceTimers' = w.forceTimers
  /\ before' = w.before
  /\ ntpCalls' = w.ntpCalls
  /\ samples' = w.samples

(***************************************************************************)
(* Pending timers.  The reset timer of a breaker and the setTimeout of     *)
(* forceFailure are kept with the order in which they must expire: a timer *)
(* set while another one is pending, for at least as long, expires after   *)
(* it.                                                                     *)
(***************************************************************************)
ResetId(s) == IF s = Primary THEN 0 - 1 ELSE 0 - 2
PendingTimers(w) ==
  {ResetId(s) : s \in {x \in Servers : w.breaker[x].timer}}
    \cup {f.id : f \in w.forceTimers}
Duration(w, id) ==
  IF id < 0 THEN resetTimeout
  ELSE (CHOOSE f \in w.forceTimers : f.id = id).duration
\* the pairs a timer `id` of duration d adds when it is set
Later(w, id, d) ==
  {<<y, id>> : y \in {p \in PendingTimers(w) : p # id /\ Duration(w, p) <= d}}
Forget(rel, id) == {p \in rel : p[1] # id /\ p[2] # id}
MayExpire(id) == ~ \E p \in before : p[2] = id

(***************************************************************************)
(* NTPMetricsManager.                                                      *)
(***************************************************************************)
\* a moving average is kept exactly, as num / den^exp
Avg(num, exp) == [num |-> num, exp |-> exp]
RECURSIVE Pow(_, _)
Pow(b, e) == IF e = 0 THEN 1 ELSE b * Pow(b, e - 1)

InitialMetric(server) ==
  [server |-> server, averageLatency |-> Avg(0, 0), successRate |-> Avg(100, 0),
   responseTime |-> 0, failoverCount |-> 0, activeClients |-> 0, lastSync |-> Zero]

NullAttempt == [server |-> "null", timestamp |-> Zero, success |-> FALSE]

\* a plausible slip: the active server follows every attempt, failed or not
MutUpdateMetrics(w, server, latency, success, responseTime, dateNow) ==
  [w EXCEPT
     !.metrics[server].responseTime = responseTime,
     !.metrics[server].lastSync = dateNow,
     !.lastSyncAttempt = [server |-> server, timestamp |-> dateNow,
                          success |-> success],
     !.activeServer = server,
     !.samples[server][IF success THEN "ok" ELSE "ko"] = @ + 1]

\* averageLatency = averageLatency * 0.8 + latency * 0.2   (fifths)
\* successRate    = successRate * 0.9 + successValue * 0.1 (tenths)
UpdateMetrics(w, server, latency, success, responseTime, dateNow) ==
  LET m == w.metrics[server]
      sv == IF success THEN 100 ELSE 0
      m1 == [m EXCEPT
               !.averageLatency = Avg(m.averageLatency.num * 4
                                        + latency * Pow(5, m.averageLatency.exp),
                                      m.averageLatency.exp + 1),
               !.successRate = Avg(m.successRate.num * 9
                                     + sv * Pow(10, m.successRate.exp),
                                   m.successRate.exp + 1),
               !.responseTime = responseTime,
               !.lastSync = dateNow]
  IN  [w EXCEPT
         !.metrics[server] = m1,
         !.lastSyncAttempt = [server |-> server, timestamp |-> dateNow,
                              success |-> success],
         !.activeServer = IF success THEN server ELSE @,
         !.samples[server][IF success THEN "ok" ELSE "ko"] = @ + 1]

\* getHealthStatus: isActive of a server
IsActive(server) == activeServer = server

\* a plausible slip: the failover branch marks the primary as well
MutSetActiveServer(w, server) == [w EXCEPT !.activeServer = Primary]

SetActiveServer(w, server) == [w EXCEPT !.activeServer = server]

IncrementFailover(w, server) ==
  [w EXCEPT !.metrics[server].failoverCount = @ + 1]

IncrementActiveClients(w, server) ==
  [w EXCEPT !.metrics[server].activeClients = @ + 1]

DecrementActiveClients(w, server) ==
  IF w.metrics[server].activeClients > 0
  THEN [w EXCEPT !.metrics[server].activeClients = @ - 1]
  ELSE w

\* the listeners setupCircuitBreakerEvents registers for 'open'
OnOpen(w, server) == IncrementFailover(w, server)

(***************************************************************************)
(* The circuit breaker (one per server), after section 4.1 of the          *)
(* specification: Closed, Open, Half-Open; a rolling window tallying       *)
(* successes and failures; a reset timer started on every opening.         *)
(***************************************************************************)
\* forcedBy records the timer id of the forceFailure call made last on an
\* open breaker, 0 once the breaker was closed or opened by call failures
InitialBreaker ==
  [state |-> "closed", pendingClose |-> FALSE, timer |-> FALSE,
   successes |-> 0, failures |-> 0, trials |-> 0, forcedBy |-> 0]

\* Closed passes calls; Half-Open passes the one trial call; Open passes none
Admits(b) == b.state = "closed" \/ (b.state = "halfOpen" /\ b.pendingClose)

ThresholdReached(failures, total) ==
  failures * 100 >= errorThresholdPercentage * total

OpenBreaker(w, s) ==
  IF w.breaker[s].state = "open" THEN w
  ELSE OnOpen([w EXCEPT !.breaker[s].state = "open",
                        !.breaker[s].forcedBy = 0,
                        !.breaker[s].pendingClose = FALSE,
                        !.breaker[s].trials = 0,
                        !.breaker[s].timer = TRUE,
                        !.before = @ \cup Later(w, ResetId(s), resetTimeout)],
              s)

CloseBreaker(w, s) ==
  IF w.breaker[s].state = "closed" THEN w
  ELSE [w EXCEPT !.breaker[s].state = "closed",
                 !.breaker[s].forcedBy = 0,
                 !.breaker[s].pendingClose = FALSE,
                 !.breaker[s].trials = 0,
                 !.breaker[s].timer = FALSE,
                 !.before = Forget(@, ResetId(s))]

\* the reset timer expires
HalfOpenBreaker(w, s) ==
  [w EXCEPT !.breaker[s].state = "halfOpen",
            !.breaker[s].pendingClose = TRUE,
            !.breaker[s].trials = 0,
            !.breaker[s].timer = FALSE,
            !.before = Forget(@, ResetId(s))]

\* the trial call is let through and uses up the permit
PassCall(w, s) ==
  [w EXCEPT !.breaker[s].pendingClose = FALSE,
            !.breaker[s].trials = IF w.breaker[s].state = "halfOpen" THEN @ + 1 ELSE @]

\* The outcome of a call goes into the window and the state is recomputed.
\* `decides` says whether the outcome settles a Half-Open breaker: that of
\* the trial call does; for a call let through before the breaker opened
\* the specification does not say, and both readings are kept.
RecordOutcome(w, s, ok, decides) ==
  LET b == w.breaker[s]
      w1 == IF ok THEN [w EXCEPT !.breaker[s].successes = @ + 1]
            ELSE [w EXCEPT !.breaker[s].failures = @ + 1]
      b1 == w1.breaker[s]
  IN  IF b.state = "halfOpen" /\ decides
      THEN IF ok THEN CloseBreaker(w1, s) ELSE OpenBreaker(w1, s)
      ELSE IF b.state = "closed" /\ ~ok
                /\ ThresholdReached(b1.failures, b1.successes + b1.failures)
           THEN OpenBreaker(w1, s)
           ELSE w1

\* errors raised by the breaker itself
BreakerOpenError == <<"Error: Breaker is open">>
TimeoutError == <<"Error: Timed out after 5000ms">>

(***************************************************************************)
(* getNTPTime and getNTPTimeWithCircuitBreaker.                            *)
(***************************************************************************)
\* reject(new Error(`Error conectando a ${server}: ${err.message}`))
ConnectError(server) == <<"Error: Error conectando a ", server, ": ", "err.message">>
\* reject(new Error(`No se recibió fecha del servidor ${server}`))
NoDateError(server) == <<"Error: No se recibio fecha del servidor ", server>>
NtpErrors(server) == {ConnectError(server), NoDateError(server)}

\* a plausible slip: the condition that selects the breaker is inverted
MutBreakerFor(server) == IF server = Primary THEN Secondary ELSE Primary

\* if (server === 'ntp.shoa.cl') primaryNTPBreaker.fire(..) else secondaryNTPBreaker.fire(..)
BreakerFor(server) == IF server = Primary THEN Primary ELSE Secondary

\* catch: updateMetrics(server, 0, false, responseTime); finally: decrement
CallFailed(w, server, responseTime, dateNow) ==
  DecrementActiveClients(
    UpdateMetrics(w, server, 0, FALSE, responseTime, dateNow), server)

\* updateMetrics(server, result.roundTripTime, true, responseTime); finally: decrement
CallSucceeded(w, server, roundTripTime, responseTime, dateNow) ==
  DecrementActiveClients(
    UpdateMetrics(w, server, roundTripTime, TRUE, responseTime, dateNow), server)

\* a plausible slip: getNTPTime is called directly, past the breaker
MutBeginCall(w, server, dateNow) ==
  [admitted |-> TRUE, trial |-> FALSE,
   w |-> [IncrementActiveClients(w, server) EXCEPT !.ntpCalls[server] = @ + 1]]

\* up to the await of breaker.fire(server): either getNTPTime is invoked and
\* the caller waits, or the breaker rejects at once and the catch block runs
BeginCall(w, server, dateNow) ==
  LET w1 == IncrementActiveClients(w, server)
      b == BreakerFor(server)
  IN  IF Admits(w1.breaker[b])
      THEN [admitted |-> TRUE,
            trial |-> w1.breaker[b].state = "halfOpen",
            w |-> [PassCall(w1, b) EXCEPT !.ntpCalls[server] = @ + 1]]
      ELSE [admitted |-> FALSE, trial |-> FALSE,
            w |-> CallFailed(w1, server, 0, dateNow)]

\* a plausible slip: the callback itself records the reply in the metrics
MutNtpCallback(w, server) == UpdateMetrics(w, server, 12, TRUE, 0, Zero)

\* the callback of ntpClient.getNetworkTime, run after the breaker's timeout
\* has already rejected the call: it measures and settles its own promise
NtpCallback(w, server) == w
\* the breaker drops the settlement of a call it has timed out
DropLate(w, server) == w

(***************************************************************************)
(* isReliableSync, and the history of TimeController.syncTime.             *)
(***************************************************************************)
MAX_RTT == 1000
MAX_PRECISION == 100

\* a plausible slip: the limits themselves still count as reliable
MutIsReliableSync(result) ==
  IF ~result.success THEN FALSE
  ELSE /\ ~NumLess(FromInt(MAX_RTT), result.roundTripTime)
       /\ ~NumLess(FromInt(MAX_PRECISION), result.precision)

isReliableSync(result) ==
  IF ~result.success THEN FALSE
  ELSE /\ NumLess(result.roundTripTime, FromInt(MAX_RTT))
       /\ NumLess(result.precision, FromInt(MAX_PRECISION))

\* a plausible slip: the oldest entry goes as soon as the list holds 50
MutCapHistory(hist, clientId, syncResult) ==
  LET h0 == IF clientId \in DOMAIN hist THEN hist ELSE (clientId :> <<>>) @@ hist
      all == Append(h0[clientId], syncResult)
      kept == IF Len(all) >= HistoryCap
              THEN SubSeq(all, Len(all) - HistoryCap + 2, Len(all))
              ELSE all
  IN  [h0 EXCEPT ![clientId] = kept]

\* a plausible slip: the list of the client is replaced instead of extended
MutRecordHistory(hist, clientId, syncResult) ==
  (clientId :> <<syncResult>>) @@ hist

\* a plausible slip: the result is put in front of the list
MutPrependHistory(hist, clientId, syncResult) ==
  LET h0 == IF clientId \in DOMAIN hist THEN hist ELSE (clientId :> <<>>) @@ hist
  IN  [h0 EXCEPT ![clientId] = <<syncResult>> \o @]

\* if (!has) set(clientId, []); push(syncResult); if (length > 50) splice(0, length - 50)
RecordHistory(hist, clientId, syncResult) ==
  LET h0 == IF clientId \in DOMAIN hist THEN hist ELSE (clientId :> <<>>) @@ hist
      all == Append(h0[clientId], syncResult)
      kept == IF Len(all) > HistoryCap
              THEN SubSeq(all, Len(all) - HistoryCap + 1, Len(all))
              ELSE all
  IN  [h0 EXCEPT ![clientId] = kept]

NoResult ==
  [success |-> FALSE, serverTime |-> Zero, clientTime |-> Zero, offset |-> Zero,
   roundTripTime |-> Zero, precision |-> Zero, server |-> "", error |-> NoError]

(***************************************************************************)
(* calculateSyncStats and generateRecommendations.  A mean is kept as the  *)
(* sum and the count, a percentage as the part and the whole.              *)
(***************************************************************************)
Mean(sum, n) == [sum |-> sum, n |-> n]
Pct(part, whole) == [part |-> part, whole |-> whole]
\* percentage < limit
PctLess(p, limit) == 100 * p.part < limit * p.whole

NoStats ==
  [averageOffset |-> Mean(Zero, 1), averageRTT |-> Mean(Zero, 1),
   successRate |-> Pct(0, 1), reliability |-> Pct(0, 1)]

IsSuccess(r) == r.success
RECURSIVE SumOffset(_)
SumOffset(results) ==
  IF results = <<>> THEN Zero
  ELSE NumAdd(Head(results).offset, SumOffset(Tail(results)))
RECURSIVE SumRtt(_)
SumRtt(results) ==
  IF results = <<>> THEN Zero
  ELSE NumAdd(Head(results).roundTripTime, SumRtt(Tail(results)))

\* a plausible slip: the averages are taken over all results
MutCalculateSyncStats(results) ==
  LET successfulResults == SelectSeq(results, IsSuccess)
  IN  IF Len(successfulResults) = 0 THEN NoStats
      ELSE [averageOffset |-> Mean(SumOffset(results), Len(results)),
            averageRTT |-> Mean(SumRtt(results), Len(results)),
            successRate |-> Pct(Len(successfulResults), Len(results)),
            reliability |-> Pct(Len(SelectSeq(successfulResults, isReliableSync)),
                                Len(successfulResults))]

calculateSyncStats(results) ==
  LET successfulResults == SelectSeq(results, IsSuccess)
  IN  IF Len(successfulResults) = 0 THEN NoStats
      ELSE [averageOffset |-> Mean(SumOffset(successfulResults),
                                   Len(successfulResults)),
            averageRTT |-> Mean(SumRtt(successfulResults), Len(successfulResults)),
            successRate |-> Pct(Len(successfulResults), Len(results)),
            reliability |-> Pct(Len(SelectSeq(successfulResults, isReliableSync)),
                                Len(successfulResults))]

\* getClientStats returns null
NoClientStats ==
  [present |-> FALSE, clientId |-> "", totalSyncs |-> 0, stats |-> NoStats,
   lastSync |-> NoResult, reliableSyncs |-> 0]

getClientStats(hist, clientId) ==
  LET history == IF clientId \in DOMAIN hist THEN hist[clientId] ELSE <<>>
  IN  IF Len(history) = 0 THEN NoClientStats
      ELSE [present |-> TRUE, clientId |-> clientId, totalSyncs |-> Len(history),
            stats |-> calculateSyncStats(history),
            lastSync |-> history[Len(history)],
            reliableSyncs |-> Len(SelectSeq(history, isReliableSync))]

\* thirtySecondsAgo = Date.now() - (30 * 1000)
ActiveWindow == 30000

\* the count getSystemStatus and getStats report
getActiveClientsCount(hist, dateNow) ==
  LET thirtySecondsAgo == NumSub(dateNow, FromInt(ActiveWindow))
      activeCount ==
        Cardinality({c \in DOMAIN hist :
                       /\ Len(hist[c]) > 0
                       /\ NumLess(thirtySecondsAgo, hist[c][Len(hist[c])].clientTime)})
  IN  IF activeCount > 1 THEN activeCount ELSE 1

HighLatency == "Latencia alta detectada. Considere usar una conexion de red mas rapida."
LowPrecision == "Precision baja. La sincronizacion puede no ser confiable."
LowSuccessRate == "Tasa de exito baja. Verifique la conectividad de red."
BigOffset == "Diferencia de tiempo significativa detectada. Considere ajustar el reloj del sistema."
WorkingFine == "Sincronizacion funcionando correctamente."

\* a plausible slip: the checks are chained with else, so only the first
\* advisory that applies is given
MutGenerateRecommendations(result, stats) ==
  IF NumLess(FromInt(500), result.roundTripTime) THEN <<HighLatency>>
  ELSE IF NumLess(FromInt(50), result.precision) THEN <<LowPrecision>>
  ELSE IF PctLess(stats.successRate, 95) THEN <<LowSuccessRate>>
  ELSE IF NumLess(FromInt(1000), NumAbs(result.offset)) THEN <<BigOffset>>
  ELSE <<WorkingFine>>

generateRecommendations(result, stats) ==
  LET recommendations ==
        (IF NumLess(FromInt(500), result.roundTripTime)
         THEN <<HighLatency>> ELSE <<>>)
        \o (IF NumLess(FromInt(50), result.precision)
            THEN <<LowPrecision>> ELSE <<>>)
        \o (IF PctLess(stats.successRate, 95)
            THEN <<LowSuccessRate>> ELSE <<>>)
        \o (IF NumLess(FromInt(1000), NumAbs(result.offset))
            THEN <<BigOffset>> ELSE <<>>)
  IN  IF Len(recommendations) = 0 THEN <<WorkingFine>> ELSE recommendations

NoResponse ==
  [status |-> 0, success |-> FALSE, syncResult |-> NoResult,
   isReliable |-> FALSE, error |-> NoError]

\* a plausible slip: only an answer of the primary is reported as a success
MutRespond(syncResult) ==
  IF syncResult.success /\ syncResult.server = Primary
  THEN [status |-> 200, success |-> TRUE, syncResult |-> syncResult,
        isReliable |-> isReliableSync(syncResult), error |-> NoError]
  ELSE [status |-> 503, success |-> FALSE, syncResult |-> syncResult,
        isReliable |-> FALSE,
        error |-> IF syncResult.success THEN <<"Error desconocido">>
                  ELSE syncResult.error]

\* res.json({success: true, syncResult, isReliable, ..}) or
\* res.status(503).json({success: false, syncResult, error: syncResult.error, ..})
Respond(syncResult) ==
  IF syncResult.success
  THEN [status |-> 200, success |-> TRUE, syncResult |-> syncResult,
        isReliable |-> isReliableSync(syncResult), error |-> NoError]
  ELSE [status |-> 503, success |-> FALSE, syncResult |-> syncResult,
        isReliable |-> FALSE, error |-> syncResult.error]

\* res.status(400).json({success: false, error: 'clientRequestTime es requerido'})
BadRequest ==
  [status |-> 400, success |-> FALSE, syncResult |-> NoResult,
   isReliable |-> FALSE, error |-> <<"clientRequestTime es requerido">>]

(***************************************************************************)
(* Requests.  Slot r holds the r-th request of POST /api/time/sync, from   *)
(* its arrival to its response.  firedP, firedS, primaryOutcome and        *)
(* secondaryError record what the request did.                             *)
(***************************************************************************)
IdleSlot ==
  [pc |-> "idle", clientId |-> "", T0 |-> Zero, startTime |-> 0, trial |-> FALSE,
   primaryError |-> NoError, secondaryError |-> NoError,
   firedP |-> 0, firedS |-> 0, primaryOutcome |-> "none",
   response |-> NoResponse]

\* what the clients send: a nanosecond stamp taken 80 ms before the epoch of the clock
RawTimes == {Num(1699999, 999920, 0, 0)}
\* the time an NTP server reports, and the round trip getNTPTime measures (ms)
ReplyTimes == {NumAdd(Epoch, FromInt(3))}
NetRtts == {12}

\* everything but the histories
IdleEngine ==
  /\ now = 0
  /\ slot = [r \in Slots |-> IdleSlot]
  /\ started = 0
  /\ breaker = [s \in Servers |-> InitialBreaker]
  /\ metrics = [s \in Servers |-> InitialMetric(s)]
  /\ activeServer = Primary
  /\ lastSyncAttempt = NullAttempt
  /\ forceTimers = {}
  /\ before = {}
  /\ orphans = [s \in Servers |-> 0]
  /\ ntpCalls = [s \in Servers |-> 0]
  /\ samples = [s \in Servers |-> [ok |-> 0, ko |-> 0]]
  /\ lateSeen = [s \in Servers |-> 0]
  /\ resets = 0
  /\ admins = 0

EngineInit ==
  /\ IdleEngine
  /\ syncHistory = [c \in {} |-> <<>>]

NoPure == [op |-> "none", raw |-> Zero, T0 |-> Zero, serverTime |-> Zero,
           roundTripTime |-> Zero, T3 |-> Zero, result |-> NoResult,
           attempt |-> NoResult, reliable |-> FALSE,
           stats |-> NoStats, advice |-> <<>>,
           client |-> "", clientStats |-> NoClientStats,
           logs |-> <<>>, added |-> 0, hook |-> <<>>]

Init ==
  /\ EngineInit
  /\ pure = NoPure
  /\ pushed = [c \in {} |-> <<>>]

Elapsed(sl) == (now - sl.startTime) * TickMs

\* the request is answered: history, then the response
Finish(r, sl, w, syncResult) ==
  /\ syncHistory' = RecordHistory(syncHistory, sl.clientId, syncResult)
  /\ slot' = [slot EXCEPT ![r] = [sl EXCEPT !.pc = "done",
                                           !.response = Respond(syncResult)]]
  /\ Commit(w)

\* catch (primaryError): the secondary is tried; if its breaker rejects at
\* once the request ends here with both servers failed
Failover(r, sl, w, primaryError) ==
  LET c == BeginCall(w, Secondary, DateNow(now))
      sl1 == [sl EXCEPT !.primaryError = primaryError,
                        !.firedS = @ + 1,
                        !.startTime = now,
                        !.trial = c.trial]
  IN  IF c.admitted
      THEN /\ slot' = [slot EXCEPT ![r] = [sl1 EXCEPT !.pc = "waitSecondary"]]
           /\ Commit(c.w)
           /\ UNCHANGED syncHistory
      ELSE Finish(r, [sl1 EXCEPT !.secondaryError = BreakerOpenError], c.w,
                  BothFailedResult(primaryError, BreakerOpenError, DateNow(now)))

\* a plausible slip: the primary's result is not returned and the secondary
\* is asked as well
MutPrimaryDone(r, sl, w, syncResult) == Failover(r, sl, w, NoError)

\* return {success: true, ..} inside the try block of the primary
PrimaryDone(r, sl, w, syncResult) == Finish(r, sl, w, syncResult)

\* client ids are interchangeable: a request comes from a client seen before
\* or from the first one not seen yet
Seen == {slot[r].clientId : r \in 1..started}
MaySend(clientId) ==
  \/ clientId \in Seen
  \/ clientId = "c1"
  \/ clientId = "c2" /\ "c1" \in Seen

\* POST /api/time/sync with a clientRequestTime: syncTime up to its first wait
SyncTime(r, clientId, raw) ==
  /\ r = started + 1
  /\ MaySend(clientId)
  /\ started' = started + 1
  /\ LET c == BeginCall(World, Primary, DateNow(now))
         sl == [IdleSlot EXCEPT !.clientId = clientId,
                                !.T0 = NormalizeT0(raw),
                                !.startTime = now,
                                !.trial = c.trial,
                                !.firedP = 1]
     IN  IF c.admitted
         THEN /\ slot' = [slot EXCEPT ![r] = [sl EXCEPT !.pc = "waitPrimary"]]
              /\ Commit(c.w)
              /\ UNCHANGED syncHistory
         ELSE Failover(r, [sl EXCEPT !.primaryOutcome = "failed"], c.w,
                       BreakerOpenError)
  /\ UNCHANGED <<now, orphans, lateSeen, resets, admins, pure, pushed>>

\* a plausible slip: the request is not validated and is synchronised with
\* an empty request time
MutSyncTimeMissing(r) == SyncTime(r, "c1", Zero)

\* POST /api/time/sync without a clientRequestTime
SyncTimeMissing(r) ==
  /\ r = started + 1
  /\ started' = started + 1
  /\ slot' = [slot EXCEPT ![r] = [IdleSlot EXCEPT !.pc = "done",
                                                  !.clientId = "c1",
                                                  !.response = BadRequest]]
  /\ UNCHANGED <<now, breaker, metrics, activeServer, lastSyncAttempt, syncHistory,
                 forceTimers, before, orphans, ntpCalls, samples, lateSeen,
                 resets, admins, pure, pushed>>

Waiting(r) == slot[r].pc \in {"waitPrimary", "waitSecondary"}
ServerOf(sl) == IF sl.pc = "waitPrimary" THEN Primary ELSE Secondary

\* the NTP server answers in time
NtpReply(r, serverTime, roundTripTime, decides) ==
  /\ Waiting(r)
  /\ LET sl == slot[r]
         s == ServerOf(sl)
         w1 == RecordOutcome(World, BreakerFor(s), TRUE, sl.trial \/ decides)
         w2 == CallSucceeded(w1, s, roundTripTime, Elapsed(sl), DateNow(now))
         w3 == SetActiveServer(w2, s)
     IN  IF s = Primary
         THEN PrimaryDone(r, [sl EXCEPT !.primaryOutcome = "ok"], w3,
                          PrimaryResult(sl.T0, serverTime, FromInt(roundTripTime),
                                        DateNow(now)))
         ELSE Finish(r, sl, w3,
                     FailoverResult(sl.T0, serverTime, FromInt(roundTripTime),
                                    DateNow(now)))
  /\ UNCHANGED <<now, started, orphans, lateSeen, resets, admins, pure, pushed>>

\* a plausible slip: after a failure of the secondary the primary is tried
\* again
MutCallError(r, cause, decides) ==
  LET sl == slot[r]
      s == ServerOf(sl)
      w1 == RecordOutcome(World, BreakerFor(s), FALSE, sl.trial \/ decides)
      w2 == CallFailed(w1, s, Elapsed(sl), DateNow(now))
  IN  IF s = Primary
      THEN Failover(r, [sl EXCEPT !.primaryOutcome = "failed"], w2, cause)
      ELSE /\ slot' = [slot EXCEPT ![r] = [sl EXCEPT !.pc = "waitPrimary",
                                                    !.secondaryError = cause]]
           /\ Commit(w2)
           /\ UNCHANGED syncHistory

\* the call ends in an error `cause`
CallError(r, cause, decides) ==
  LET sl == slot[r]
      s == ServerOf(sl)
      w1 == RecordOutcome(World, BreakerFor(s), FALSE, sl.trial \/ decides)
      w2 == CallFailed(w1, s, Elapsed(sl), DateNow(now))
  IN  IF s = Primary
      THEN Failover(r, [sl EXCEPT !.primaryOutcome = "failed"], w2, cause)
      ELSE Finish(r, [sl EXCEPT !.secondaryError = cause], w2,
                  BothFailedResult(sl.primaryError, cause, DateNow(now)))

\* getNTPTime rejects: connection error or no date
NtpError(r, decides) ==
  /\ Waiting(r)
  /\ \E cause \in NtpErrors(ServerOf(slot[r])) : CallError(r, cause, decides)
  /\ UNCHANGED <<now, started, orphans, lateSeen, resets, admins, pure, pushed>>

\* the breaker's timeout cuts the call off; the NTP request stays outstanding
BreakerTimeout(r, decides) ==
  /\ Waiting(r)
  /\ CallError(r, TimeoutError, decides)
  /\ orphans' = [orphans EXCEPT ![ServerOf(slot[r])] = @ + 1]
  /\ UNCHANGED <<now, started, lateSeen, resets, admins, pure, pushed>>

\* the reply (or error) of a call that was cut off arrives
LateCompletion(s) ==
  /\ orphans[s] > 0
  /\ orphans' = [orphans EXCEPT ![s] = @ - 1]
  /\ lateSeen' = [lateSeen EXCEPT ![s] = @ + 1]
  /\ Commit(DropLate(NtpCallback(World, s), s))
  /\ UNCHANGED <<now, slot, started, syncHistory, resets, admins, pure, pushed>>

(***************************************************************************)
(* Timers, the admin route and the hourly reset.  The timers run on the    *)
(* monotonic clock of the event loop; Date.now() is the wall clock, which  *)
(* advances on its own.                                                    *)
(***************************************************************************)
\* the clock advances
Tick ==
  /\ now < MaxTick
  /\ now' = now + 1
  /\ UNCHANGED <<slot, started, breaker, metrics, activeServer, lastSyncAttempt,
                 syncHistory, forceTimers, before, orphans, ntpCalls, samples,
                 lateSeen, resets, admins, pure, pushed>>

\* the reset timeout of an Open breaker elapses
ResetTimerFires(s) ==
  /\ breaker[s].timer
  /\ MayExpire(ResetId(s))
  /\ Commit(HalfOpenBreaker(World, s))
  /\ UNCHANGED <<now, slot, started, syncHistory, orphans, lateSeen, resets,
                 admins, pure, pushed>>

\* a quiet rolling-window span passes: every tallied outcome has left the window
WindowExpire(s) ==
  /\ breaker[s].successes + breaker[s].failures > 0
  /\ breaker' = [breaker EXCEPT ![s].successes = 0, ![s].failures = 0]
  /\ UNCHANGED <<now, slot, started, metrics, activeServer, lastSyncAttempt,
                 syncHistory, forceTimers, before, orphans, ntpCalls, samples,
                 lateSeen, resets, admins, pure, pushed>>

\* forceFailure(server, duration): breaker.open(); setTimeout(() => breaker.close(), duration)
ForceFailure(w, server, duration, id) ==
  LET opens == w.breaker[server].state # "open"
      w1 == OpenBreaker(w, server)
      sameInstant == IF opens /\ duration < resetTimeout
                     THEN {<<id, ResetId(server)>>} ELSE {}
  IN  [w1 EXCEPT
         !.breaker[server].forcedBy = id,
         !.before = @ \cup Later(w1, id, duration) \cup sameInstant,
         !.forceTimers = @ \cup {[id |-> id, server |-> server,
                                  duration |-> duration]}]

\* restoreService(server): breaker.close()
RestoreService(w, server) == CloseBreaker(w, server)

\* POST /api/time/admin/simulate-failure {action: 'fail-primary', duration}
SimulateFailPrimary(duration) ==
  /\ admins < MaxAdmin
  /\ admins' = admins + 1
  /\ Cardinality(forceTimers) < MaxForceTimers
  /\ LET id == CHOOSE k \in 1..MaxForceTimers : \A f \in forceTimers : f.id # k
     IN  Commit(ForceFailure(World, Primary, duration, id))
  /\ UNCHANGED <<now, slot, started, syncHistory, orphans, lateSeen, resets,
                 pure, pushed>>

\* POST /api/time/admin/simulate-failure {action: 'restore'}
SimulateRestore ==
  /\ admins < MaxAdmin
  /\ admins' = admins + 1
  /\ Commit(RestoreService(World, Primary))
  /\ UNCHANGED <<now, slot, started, syncHistory, orphans, lateSeen, resets,
                 pure, pushed>>

\* the setTimeout callback of forceFailure runs
ForceTimerFires(f) ==
  /\ f \in forceTimers
  /\ MayExpire(f.id)
  /\ LET w1 == [World EXCEPT !.forceTimers = @ \ {f},
                             !.before = Forget(@, f.id)]
     IN  Commit(CloseBreaker(w1, f.server))
  /\ UNCHANGED <<now, slot, started, syncHistory, orphans, lateSeen, resets,
                 admins, pure, pushed>>

\* resetMetrics(), run by setInterval every hour
ResetMetric(metric) ==
  [metric EXCEPT !.averageLatency = Avg(0, 0), !.successRate = Avg(100, 0),
                 !.responseTime = 0, !.failoverCount = 0, !.activeClients = 0]

ResetMetrics ==
  /\ resets < MaxResets
  /\ resets' = resets + 1
  /\ metrics' = [s \in Servers |-> ResetMetric(metrics[s])]
  /\ UNCHANGED <<now, slot, started, breaker, activeServer, lastSyncAttempt,
                 syncHistory, forceTimers, before, orphans, ntpCalls, samples,
                 lateSeen, admins, pure, pushed>>

\* the requests, the NTP servers and the breakers' own timers
CoreNext ==
  \/ \E r \in Slots, c \in ClientIds, raw \in RawTimes : SyncTime(r, c, raw)
  \/ \E r \in Slots : SyncTimeMissing(r)
  \/ \E r \in Slots, t \in ReplyTimes, rtt \in NetRtts, d \in BOOLEAN :
       NtpReply(r, t, rtt, d)
  \/ \E r \in Slots, d \in BOOLEAN : NtpError(r, d)
  \/ \E r \in Slots, d \in BOOLEAN : BreakerTimeout(r, d)
  \/ \E s \in Servers : LateCompletion(s)
  \/ \E s \in Servers : ResetTimerFires(s)

\* the engine with the admin route
Next ==
  \/ CoreNext
  \/ \E d \in ForceDurations : SimulateFailPrimary(d)
  \/ SimulateRestore
  \/ \E f \in forceTimers : ForceTimerFires(f)

Spec == Init /\ [][Next]_vars

\* the engine with the rolling window of the breakers moving on
NextWindow ==
  \/ CoreNext
  \/ \E s \in Servers : WindowExpire(s)

SpecWindow == Init /\ [][NextWindow]_vars

\* the engine with the wall clock advancing
NextClock == CoreNext \/ Tick

SpecClock == Init /\ [][NextClock]_vars

\* the engine with the hourly reset of the metrics
NextMetrics == CoreNext \/ ResetMetrics

SpecMetrics == Init /\ [][NextMetrics]_vars

(***************************************************************************)
(* cristianSyncAlgorithm as a function of its inputs: the stamp the client *)
(* sent, the NTP reply and Date.now() at the reply.                        *)
(***************************************************************************)
\* a nanosecond stamp, one with a sub-millisecond part, a millisecond stamp
\* below 1e12, and a present-day millisecond stamp
PureRawTimes ==
  {Num(1699999, 999920, 0, 0), Num(1700000, 1, 500000, 0),
   Num(0, 999999, 999999, 0), Num(1, 700000, 0, 0)}
PureServerTimes ==
  {NumAdd(Epoch, FromInt(3)), NumSub(Epoch, FromInt(1000)), Epoch,
   NumAdd(Epoch, FromInt(50))}
\* Date.now() at the reply: the server clock may be behind the client's
PureT3s ==
  {Epoch, NumAdd(Epoch, FromInt(7)), NumSub(Epoch, FromInt(100)),
   NumAdd(Epoch, FromInt(100))}
PureRtts == {FromInt(12), FromInt(41)}

InitCristian ==
  /\ EngineInit
  /\ pushed = [c \in {} |-> <<>>]
  /\ \E raw \in PureRawTimes, serverTime \in PureServerTimes,
        roundTripTime \in PureRtts, T3 \in PureT3s :
       pure = [NoPure EXCEPT !.raw = raw, !.serverTime = serverTime,
                             !.roundTripTime = roundTripTime, !.T3 = T3]

\* the first lines of cristianSyncAlgorithm
Normalize ==
  /\ pure.op = "none"
  /\ pure' = [pure EXCEPT !.op = "normalized", !.T0 = NormalizeT0(pure.raw)]
  /\ UNCHANGED <<engineVars, pushed>>

\* the primary answered
ApplyPrimary ==
  /\ pure.op = "normalized"
  /\ pure' = [pure EXCEPT !.op = "primary",
                          !.result = PrimaryResult(pure.T0, pure.serverTime,
                                                   pure.roundTripTime, pure.T3)]
  /\ UNCHANGED <<engineVars, pushed>>

\* the primary failed and the secondary answered
ApplyFailover ==
  /\ pure.op = "normalized"
  /\ pure' = [pure EXCEPT !.op = "failover",
                          !.result = FailoverResult(pure.T0, pure.serverTime,
                                                    pure.roundTripTime, pure.T3)]
  /\ UNCHANGED <<engineVars, pushed>>

NextCristian == Normalize \/ ApplyPrimary \/ ApplyFailover

SpecCristian == InitCristian /\ [][NextCristian]_vars

Synchronizing == {r \in 1..started : slot[r].response.status # 400}
Returned == {r \in Synchronizing : slot[r].pc = "done"}
SecondaryFailed(r) == slot[r].secondaryError # NoError
BothFailed(r) == slot[r].primaryOutcome = "failed" /\ SecondaryFailed(r)

\* C2: every synchronize call fires the primary's breaker first and once; it
\* fires the secondary's breaker, once, exactly when the primary attempt has
\* failed, never while the primary attempt is pending
PrimaryFirstThenSecondary ==
  \A r \in Synchronizing :
    /\ slot[r].firedP = 1
    /\ slot[r].firedS <= 1
    /\ slot[r].firedS = 1 <=> slot[r].primaryOutcome = "failed"
    /\ slot[r].pc = "waitPrimary" =>
         slot[r].primaryOutcome = "none" /\ slot[r].firedS = 0
    /\ slot[r].pc = "waitSecondary" => slot[r].primaryOutcome = "failed"
    /\ slot[r].primaryOutcome = "ok" =>
         slot[r].pc = "done" /\ slot[r].response.syncResult.server = Primary

\* two requests have each failed over, one of them answered by the secondary
FailedOverTwice ==
  /\ \A r \in Slots : slot[r].firedP = 1 /\ slot[r].firedS = 1
  /\ \E r \in Slots : slot[r].pc = "done"
                        /\ slot[r].response.syncResult.server = Secondary

\* the text `sub` occurs in the text `seq`
Contains(seq, sub) ==
  \E i \in 1..(Len(seq) - Len(sub) + 1) : SubSeq(seq, i, i + Len(sub) - 1) = sub

\* the step in which a request returns with both servers failed
BothFailedStep ==
  \A r \in Slots :
    (slot[r].pc # "done" /\ slot'[r].pc = "done" /\ SecondaryFailed(r)') =>
      LET a == slot'[r].response.syncResult
      IN  /\ slot'[r].primaryOutcome = "failed"
          /\ ~a.success
          /\ a.server = "ninguno"
          /\ a.serverTime = Zero /\ a.offset = Zero
          /\ a.roundTripTime = Zero /\ a.precision = Zero
          /\ a.clientTime = DateNow(now)
          /\ slot'[r].primaryError # NoError
          /\ Contains(a.error, slot'[r].primaryError)
          /\ Contains(a.error, slot'[r].secondaryError)
          /\ slot'[r].response.status = 503
          /\ slot'[r].response.error = a.error

\* C3: when the secondary attempt fails after the primary attempt failed,
\* the attempt returned has success = false, server 'ninguno', zero
\* serverTime, offset, roundTripTime and precision, clientTime = Date.now()
\* at that moment, and an error text with the primary's cause and the
\* secondary's cause
BothFailedReported == [][BothFailedStep]_vars

\* after the clock has advanced, a request was answered with both servers
\* failed, for two different causes
BothFailedLate ==
  \E r \in Slots :
    /\ slot[r].pc = "done" /\ BothFailed(r)
    /\ slot[r].primaryError # slot[r].secondaryError
    /\ slot[r].response.syncResult.clientTime = DateNow(1)

\* C4: a request is answered with success = false exactly when both its
\* attempts failed; when the primary failed and the secondary answered, the
\* answer has success = true, the secondary as server and no error field
FailureOnlyWhenBothFailed ==
  \A r \in Returned :
    LET a == slot[r].response.syncResult
    IN  /\ ~a.success <=> BothFailed(r)
        /\ slot[r].response.success = a.success
        /\ (slot[r].primaryOutcome = "failed" /\ ~SecondaryFailed(r)) =>
             /\ a.success
             /\ a.server = Secondary
             /\ a.error = NoError
             /\ slot[r].response.status = 200
             /\ slot[r].response.error = NoError

\* one request recovered through the secondary, another one lost both servers
RecoveredAndLost ==
  /\ \E r \in Returned : slot[r].primaryOutcome = "failed" /\ ~SecondaryFailed(r)
                           /\ slot[r].response.success
  /\ \E r \in Returned : BothFailed(r) /\ ~slot[r].response.success

(***************************************************************************)
(* The breakers inside the engine.                                         *)
(***************************************************************************)
\* the request that arrives in this step, if it enters cristianSyncAlgorithm
Arrives(r) == r = started + 1 /\ started' = r /\ slot'[r].response.status # 400
\* the request whose secondary attempt starts in this step
FailsOver(r) == slot[r].firedS = 0 /\ slot'[r].firedS = 1

\* a step taken while a breaker is Open
OpenRejectsStep ==
  \A s \in Servers :
    breaker[s].state = "open" =>
      /\ ntpCalls'[s] = ntpCalls[s]
      /\ \A r \in Slots :
           /\ (s = Primary /\ Arrives(r)) =>
                /\ slot'[r].pc # "waitPrimary"
                /\ slot'[r].primaryOutcome = "failed"
                /\ slot'[r].primaryError = BreakerOpenError
                /\ samples'[s].ko = samples[s].ko + 1
           /\ (s = Secondary /\ FailsOver(r)) =>
                /\ slot'[r].pc = "done"
                /\ slot'[r].secondaryError = BreakerOpenError
                /\ samples'[s].ko = samples[s].ko + 1

\* C5: while a server's breaker is Open (its reset timeout has not elapsed)
\* getNTPTime is not invoked for that server, and a call made through that
\* breaker fails at once, with the breaker's own error and one failure sample
OpenBreakerInvokesNothing == [][OpenRejectsStep]_vars

\* a request met both breakers Open, each after one call to its server
BothBreakersRejected ==
  /\ breaker[Primary].state = "open" /\ breaker[Secondary].state = "open"
  /\ ntpCalls[Primary] = 1 /\ ntpCalls[Secondary] = 1
  /\ \E r \in Slots : /\ slot[r].primaryError = BreakerOpenError
                      /\ slot[r].secondaryError = BreakerOpenError

\* restoreService, or the timer of forceFailure, closes a breaker in this step
ForcedClose ==
  \/ admins' = admins + 1 /\ forceTimers' = forceTimers
  \/ forceTimers' # forceTimers /\ forceTimers' \subseteq forceTimers

\* the call of request r to server s ends in this step
Ends(r, s) ==
  /\ slot[r].pc = (IF s = Primary THEN "waitPrimary" ELSE "waitSecondary")
  /\ slot'[r].pc # slot[r].pc
EndsWell(r, s) ==
  /\ Ends(r, s)
  /\ slot'[r].pc = "done" /\ slot'[r].response.syncResult.server = s

HalfOpenStep ==
  \A s \in Servers :
    LET b == breaker[s]
        b1 == breaker'[s]
    IN  /\ (b.state = "open" /\ b1.state # "open") =>
             \/ b1.state = "halfOpen" /\ b1.trials = 0 /\ ~b.pendingClose
             \/ b1.state = "closed" /\ ForcedClose
        /\ (b.state = "halfOpen" /\ ntpCalls'[s] # ntpCalls[s]) =>
             /\ ntpCalls'[s] = ntpCalls[s] + 1
             /\ b.trials = 0 /\ b1.trials = 1
        /\ b1.state = "halfOpen" => b1.trials <= 1
        /\ \A r \in Slots :
             (b.state = "halfOpen" /\ slot[r].trial /\ Ends(r, s)) =>
               IF EndsWell(r, s) THEN b1.state = "closed"
               ELSE b1.state = "open" /\ b1.timer

\* C7 (amended): an Open breaker whose reset timeout elapses becomes
\* Half-Open and lets exactly one call through, whatever the number of
\* concurrent requests; a successful trial closes it, a failed trial reopens
\* it with the reset timer running again; Open is left only through
\* Half-Open or through a forced close (restoreService, forceFailure's timer)
HalfOpenOneTrial == [][HalfOpenStep]_vars

\* C7 (as stated): Open is left only through Half-Open
OpenLeftOnlyThroughHalfOpen ==
  [][\A s \in Servers :
       (breaker[s].state = "open" /\ breaker'[s].state # "open") =>
         breaker'[s].state = "halfOpen"]_vars

\* the primary's breaker is Half-Open with its trial call in flight, and a
\* second request was turned away by it
TrialInFlightOtherRejected ==
  /\ breaker[Primary].state = "halfOpen" /\ breaker[Primary].trials = 1
  /\ \E r, q \in Slots :
       /\ slot[r].pc = "waitPrimary" /\ slot[r].trial
       /\ q # r /\ slot[q].primaryError = BreakerOpenError

(***************************************************************************)
(* Bookkeeping: histories and metrics samples.                             *)
(***************************************************************************)
HistoryOf(c) == IF c \in DOMAIN syncHistory THEN syncHistory[c] ELSE <<>>
InFlight(s) ==
  {r \in Slots : slot[r].pc = (IF s = Primary THEN "waitPrimary" ELSE "waitSecondary")}
Routed(s) ==
  {r \in Synchronizing : IF s = Primary THEN slot[r].firedP = 1 ELSE slot[r].firedS = 1}
Answered(s) == {r \in Returned : slot[r].response.syncResult.server = s}

\* C9: every request that has completed, successfully or not, has put one
\* attempt into the history of its own client and none elsewhere, and every
\* call routed to a server that has ended has produced one metrics sample
\* for that server, a success sample exactly for the calls that were answered
OneAttemptOneSample ==
  /\ DOMAIN syncHistory \subseteq ClientIds
  /\ \A c \in ClientIds :
       Len(HistoryOf(c)) = Cardinality({r \in Returned : slot[r].clientId = c})
  /\ \A r \in Returned :
       \E i \in 1..Len(HistoryOf(slot[r].clientId)) :
         HistoryOf(slot[r].clientId)[i] = slot[r].response.syncResult
  /\ \A s \in Servers :
       /\ samples[s].ok + samples[s].ko
            = Cardinality(Routed(s)) - Cardinality(InFlight(s))
       /\ samples[s].ok = Cardinality(Answered(s))

\* two requests of one client have completed, one answered by the secondary
\* and one with both servers failed
TwoAttemptsOneClient ==
  /\ Len(HistoryOf("c1")) = 2
  /\ Cardinality(Answered(Secondary)) = 1
  /\ samples[Primary].ko = 2 /\ samples[Secondary].ko = 1

TimeoutStep ==
  \A s \in Servers :
    orphans'[s] = orphans[s] + 1 =>
      /\ samples'[s].ko = samples[s].ko + 1
      /\ samples'[s].ok = samples[s].ok
      /\ breaker'[s].failures = breaker[s].failures + 1
      /\ breaker'[s].successes = breaker[s].successes
LateStep ==
  \A s \in Servers :
    lateSeen'[s] # lateSeen[s] =>
      UNCHANGED <<metrics, breaker, syncHistory, activeServer, lastSyncAttempt,
                  samples, slot, ntpCalls>>

\* C10: a call cut off by the timeout gives one failure sample and one
\* failure in the breaker's window; the reply that arrives afterwards
\* changes no metric, no breaker count, no history and not the active server
TimeoutOnceLateIgnored == [][TimeoutStep /\ LateStep]_vars

\* the primary timed out, the secondary answered the request, and the
\* primary's late reply has arrived since
LateAfterFallback ==
  /\ lateSeen[Primary] = 1
  /\ samples[Primary].ko = 1 /\ samples[Primary].ok = 0
  /\ activeServer = Secondary
  /\ \E r \in Returned : /\ slot[r].primaryError = TimeoutError
                         /\ slot[r].response.syncResult.server = Secondary

(***************************************************************************)
(* The history of a client under many attempts: the statements of syncTime *)
(* that record a result, applied to one result after another.              *)
(***************************************************************************)
\* the k-th result of a client: told apart by its clientTime
KthResult(k) ==
  [NoResult EXCEPT !.success = (k % 3 # 0), !.clientTime = DateNow(k),
                   !.server = IF k % 3 # 0 THEN Primary ELSE NoServer]

InitHistory ==
  /\ EngineInit
  /\ pure = NoPure
  /\ pushed = [c \in {} |-> <<>>]

Logged(c) == IF c \in DOMAIN pushed THEN pushed[c] ELSE <<>>

\* syncTime records the next result of client c
Record(c) ==
  /\ Len(Logged(c)) < MaxAttempts
  /\ LET syncResult == KthResult(Len(Logged(c)) + 1)
     IN  /\ syncHistory' = RecordHistory(syncHistory, c, syncResult)
         /\ pushed' = (c :> Append(Logged(c), syncResult)) @@ pushed
  /\ UNCHANGED <<now, slot, started, breaker, metrics, activeServer,
                 lastSyncAttempt, forceTimers, before, orphans, ntpCalls,
                 samples, lateSeen, resets, admins, pure>>

NextHistory == \E c \in ClientIds : Record(c)

SpecHistory == InitHistory /\ [][NextHistory]_vars

\* C8: the history of every client holds at most 50 attempts, and they are
\* the last min(n, 50) of the n attempts of that client, in the order in
\* which they were made
HistoryIsLastFifty ==
  /\ DOMAIN syncHistory = DOMAIN pushed
  /\ \A c \in DOMAIN pushed :
       LET n == Len(pushed[c])
           h == syncHistory[c]
       IN  /\ Len(h) <= 50
           /\ Len(h) = (IF n < 50 THEN n ELSE 50)
           /\ \A i \in 1..Len(h) : h[i] = pushed[c][n - Len(h) + i]

\* the 51st attempt of one client has evicted its first and nothing else,
\* while the other client's shorter history is whole
FiftyFirstEvictsOldest ==
  /\ Len(Logged("c1")) = 51
  /\ Len(syncHistory["c1"]) = 50
  /\ syncHistory["c1"][1] = pushed["c1"][2]
  /\ syncHistory["c1"][50] = pushed["c1"][51]
  /\ Len(Logged("c2")) = 3 /\ syncHistory["c2"] = pushed["c2"]

(***************************************************************************)
(* The request time cristianSyncAlgorithm works with.                      *)
(***************************************************************************)
\* C11 (as stated): with the request time 1,700,000,000,000 in epoch
\* milliseconds, the reply 1,700,000,000,050 and the receipt at
\* 1,700,000,000,100 the result has roundTripTime 100, offset 0 and
\* precision 50 and is reliable; a present-day epoch-millisecond request
\* time is T0 unchanged
EpochMillisExample ==
  /\ (pure.op # "none" /\ pure.raw = Epoch) => pure.T0 = pure.raw
  /\ (/\ pure.op = "primary"
      /\ pure.raw = Epoch
      /\ pure.serverTime = NumAdd(Epoch, FromInt(50))
      /\ pure.T3 = NumAdd(Epoch, FromInt(100))) =>
       /\ pure.result.roundTripTime = FromInt(100)
       /\ pure.result.offset = Zero
       /\ pure.result.precision = FromInt(50)
       /\ isReliableSync(pure.result)

\* x * 1e6, for a whole number x
TimesBase(x) == Num(x.t * Base + x.m, x.u, 0, 0)

Half == Num(0, 0, 0, 1)
ReliableRtts ==
  {Zero, FromInt(200), FromInt(999), NumAdd(FromInt(999), Half), FromInt(1000),
   FromInt(1500), NumSub(Zero, FromInt(5))}
ReliablePrecisions ==
  {Zero, FromInt(40), NumAdd(FromInt(99), Half), FromInt(100), FromInt(150),
   FromInt(500), FromInt(750)}

InitReliable ==
  /\ EngineInit
  /\ pushed = [c \in {} |-> <<>>]
  /\ \E ok \in BOOLEAN, rtt \in ReliableRtts, p \in ReliablePrecisions :
       pure = [NoPure EXCEPT !.attempt = [NoResult EXCEPT !.success = ok,
                                                          !.roundTripTime = rtt,
                                                          !.precision = p]]

Classify ==
  /\ pure.op = "none"
  /\ pure' = [pure EXCEPT !.op = "classified",
                          !.reliable = isReliableSync(pure.attempt)]
  /\ UNCHANGED <<engineVars, pushed>>

NextReliable == Classify

SpecReliable == InitReliable /\ [][NextReliable]_vars

\* C13: an attempt is reliable exactly when it succeeded, its roundTripTime
\* is below 1000 ms and its precision is below 100 ms; RTT 1500 with
\* precision 40 is not reliable, RTT 200 with precision 150 is not reliable,
\* and a failed attempt never is
ReliableIffAllThree ==
  pure.op = "classified" =>
    LET a == pure.attempt
        twice(x) == NumAdd(x, x)
    IN  /\ pure.reliable <=>
             /\ a.success
             /\ NumLess(twice(a.roundTripTime), FromInt(2000))
             /\ NumLess(twice(a.precision), FromInt(200))
        /\ (a.roundTripTime = FromInt(1500) /\ a.precision = FromInt(40)) =>
             ~pure.reliable
        /\ (a.roundTripTime = FromInt(200) /\ a.precision = FromInt(150)) =>
             ~pure.reliable
        /\ ~a.success => ~pure.reliable

\* a successful attempt exactly on the RTT limit, with a good precision, has
\* been classified as not reliable
OnRttLimit ==
  /\ pure.op = "classified"
  /\ pure.attempt.success
  /\ pure.attempt.roundTripTime = FromInt(1000)
  /\ pure.attempt.precision = FromInt(40)
  /\ ~pure.reliable

(***************************************************************************)
(* generateRecommendations as a function of the result and the statistics. *)
(***************************************************************************)
AdviceRtts == {Zero, FromInt(500), FromInt(501)}
AdvicePrecisions == {FromInt(50), NumAdd(FromInt(50), Half)}
AdviceRates == {Pct(18, 19), Pct(19, 20), Pct(0, 1)}
AdviceOffsets ==
  {NumSub(Zero, FromInt(1001)), NumSub(Zero, FromInt(1000)), FromInt(1000),
   NumAdd(FromInt(1000), Half)}

InitAdvice ==
  /\ EngineInit
  /\ pushed = [c \in {} |-> <<>>]
  /\ \E rtt \in AdviceRtts, p \in AdvicePrecisions, rate \in AdviceRates,
        offset \in AdviceOffsets :
       pure = [NoPure EXCEPT !.attempt = [NoResult EXCEPT !.success = TRUE,
                                                          !.roundTripTime = rtt,
                                                          !.precision = p,
                                                          !.offset = offset],
                             !.stats = [NoStats EXCEPT !.successRate = rate]]

Recommend ==
  /\ pure.op = "none"
  /\ pure' = [pure EXCEPT !.op = "advised",
                          !.advice = generateRecommendations(pure.attempt,
                                                             pure.stats)]
  /\ UNCHANGED <<engineVars, pushed>>

NextAdvice == Recommend

SpecAdvice == InitAdvice /\ [][NextAdvice]_vars

\* how often the text occurs in the list
Occurrences(list, text) == Cardinality({i \in 1..Len(list) : list[i] = text})

\* C14: the list is never empty; each of the four advisories is in it, once,
\* exactly when its own trigger holds (roundTripTime > 500, precision > 50,
\* success rate < 95, |offset| > 1000), whatever the other three; the
\* "working fine" message is in it exactly when no trigger holds, and is
\* then its only element
AdviceMatchesTriggers ==
  pure.op = "advised" =>
    LET a == pure.attempt
        list == pure.advice
        slow == NumLess(FromInt(500), a.roundTripTime)
        vague == NumLess(FromInt(50), a.precision)
        failing == 100 * pure.stats.successRate.part
                     < 95 * pure.stats.successRate.whole
        far == \/ NumLess(FromInt(1000), a.offset)
               \/ NumLess(a.offset, NumSub(Zero, FromInt(1000)))
        quiet == ~slow /\ ~vague /\ ~failing /\ ~far
    IN  /\ Len(list) > 0
        /\ Occurrences(list, HighLatency) = (IF slow THEN 1 ELSE 0)
        /\ Occurrences(list, LowPrecision) = (IF vague THEN 1 ELSE 0)
        /\ Occurrences(list, LowSuccessRate) = (IF failing THEN 1 ELSE 0)
        /\ Occurrences(list, BigOffset) = (IF far THEN 1 ELSE 0)
        /\ Occurrences(list, WorkingFine) = (IF quiet THEN 1 ELSE 0)
        /\ quiet => list = <<WorkingFine>>
        /\ Len(list) <= 4

\* low precision and a large negative offset trigger together, the other
\* two advisories do not
TwoAdvisories ==
  /\ pure.op = "advised"
  /\ pure.advice = <<LowPrecision, BigOffset>>
  /\ pure.attempt.offset = NumSub(Zero, FromInt(1001))
  /\ pure.attempt.roundTripTime = FromInt(500)

(***************************************************************************)
(* getClientStats over the histories a client may have.                    *)
(***************************************************************************)
MaxStatLen == 3

\* a failed attempt, two reliable ones and an unreliable one
StatResults ==
  {[NoResult EXCEPT !.server = NoServer],
   [NoResult EXCEPT !.success = TRUE, !.server = Primary,
                    !.roundTripTime = FromInt(100), !.precision = FromInt(50),
                    !.offset = NumAdd(FromInt(10), Half)],
   [NoResult EXCEPT !.success = TRUE, !.server = Secondary,
                    !.roundTripTime = FromInt(1500), !.precision = FromInt(750),
                    !.offset = NumSub(Zero, FromInt(7))],
   [NoResult EXCEPT !.success = TRUE, !.server = Primary,
                    !.roundTripTime = FromInt(41), !.precision = NumAdd(FromInt(20), Half),
                    !.offset = NumSub(Zero, FromInt(300))]}

StatHistories ==
  UNION {[1..n -> StatResults] : n \in 1..MaxStatLen}

InitStats ==
  /\ IdleEngine
  /\ pure = NoPure
  /\ pushed = [c \in {} |-> <<>>]
  /\ \/ syncHistory = [c \in {} |-> <<>>]
     \/ \E h \in StatHistories : syncHistory = ("c1" :> h)

\* GET /api/time/stats?clientId=c
GetClientStats(c) ==
  /\ pure.op = "none"
  /\ pure' = [pure EXCEPT !.op = "stats", !.client = c,
                          !.clientStats = getClientStats(syncHistory, c)]
  /\ UNCHANGED <<engineVars, pushed>>

NextStats == \E c \in ClientIds : GetClientStats(c)

SpecStats == InitStats /\ [][NextStats]_vars

RECURSIVE OffsetsOver(_, _)
OffsetsOver(h, S) ==
  IF S = {} THEN Zero
  ELSE LET i == CHOOSE x \in S : TRUE
       IN  NumAdd(h[i].offset, OffsetsOver(h, S \ {i}))
RECURSIVE RttsOver(_, _)
RttsOver(h, S) ==
  IF S = {} THEN Zero
  ELSE LET i == CHOOSE x \in S : TRUE
       IN  NumAdd(h[i].roundTripTime, RttsOver(h, S \ {i}))

\* C15: the statistics of a client take averageOffset and averageRTT as the
\* means over its successful attempts only, successRate as successful over
\* total and reliability as reliable over successful, both percentages
\* within 0..100; with no successful attempt all four are 0; for a client
\* without history there is no result
StatsOverSuccessful ==
  pure.op = "stats" =>
    LET c == pure.client
        out == pure.clientStats
    IN  IF c \notin DOMAIN syncHistory THEN ~out.present
        ELSE LET h == syncHistory[c]
                 ok == {i \in 1..Len(h) : h[i].success}
                 good == {i \in ok :
                            /\ NumLess(h[i].roundTripTime, FromInt(1000))
                            /\ NumLess(h[i].precision, FromInt(100))}
                 st == out.stats
             IN  /\ out.present
                 /\ st.successRate.part <= st.successRate.whole
                 /\ st.reliability.part <= st.reliability.whole
                 /\ st.successRate.whole > 0 /\ st.reliability.whole > 0
                 /\ st.averageOffset.n > 0 /\ st.averageRTT.n > 0
                 /\ IF ok = {}
                    THEN /\ st.averageOffset.sum = Zero
                         /\ st.averageRTT.sum = Zero
                         /\ st.successRate.part = 0
                         /\ st.reliability.part = 0
                    ELSE /\ st.averageOffset = Mean(OffsetsOver(h, ok), Cardinality(ok))
                         /\ st.averageRTT = Mean(RttsOver(h, ok), Cardinality(ok))
                         /\ st.successRate = Pct(Cardinality(ok), Len(h))
                         /\ st.reliability = Pct(Cardinality(good), Cardinality(ok))

\* a history with a failed, a reliable and an unreliable attempt: two of
\* three successful, one of two reliable, mean round trip 1600 / 2
MixedHistoryStats ==
  /\ pure.op = "stats" /\ pure.client = "c1" /\ pure.clientStats.present
  /\ Len(syncHistory["c1"]) = 3
  /\ ~syncHistory["c1"][1].success
  /\ pure.clientStats.stats.successRate = Pct(2, 3)
  /\ pure.clientStats.stats.reliability = Pct(1, 2)
  /\ pure.clientStats.stats.averageRTT = Mean(FromInt(1600), 2)

(***************************************************************************)
(* The hourly reset.                                                       *)
(***************************************************************************)
ResetStep == resets' = resets + 1

\* C16: a reset changes only the moving averages (averageLatency and
\* successRate) of each source; failover counters, active-client gauges,
\* response times, last-sync stamps, the active source, the breakers and
\* the client histories stay as they were
ResetChangesOnlyAverages ==
  [][ResetStep =>
       /\ \A s \in Servers :
            metrics'[s] = [metrics[s] EXCEPT
                             !.averageLatency = metrics'[s].averageLatency,
                             !.successRate = metrics'[s].successRate]
       /\ UNCHANGED <<syncHistory, activeServer, breaker, lastSyncAttempt>>]_vars

\* what the reset does leave alone
ResetKeepsTheRest ==
  [][ResetStep =>
       /\ \A s \in Servers :
            /\ metrics'[s].lastSync = metrics[s].lastSync
            /\ metrics'[s].server = metrics[s].server
       /\ UNCHANGED <<syncHistory, activeServer, breaker, lastSyncAttempt, slot>>]_vars

(***************************************************************************)
(* The active server.                                                      *)
(***************************************************************************)
\* request r was waiting for server s and ends with a successful result
\* from it
SucceedsOn(r, s) ==
  /\ Waiting(r)
  /\ ServerOf(slot[r]) = s
  /\ slot'[r].pc = "done"
  /\ LET h == syncHistory'[slot[r].clientId]
     IN  h[Len(h)].success /\ h[Len(h)].server = s

PrimarySucceeds(r) ==
  slot[r].pc = "waitPrimary" /\ slot'[r].primaryOutcome = "ok"

\* C18: a request whose primary attempt fails (breaker open, timeout or
\* network error) and that goes on to the secondary raises the failover
\* counter by exactly one; a request whose primary attempt succeeds does not
\* raise it
FailoverCountedOnce ==
  [][\A r \in Slots :
       /\ FailsOver(r) =>
            metrics'[Primary].failoverCount = metrics[Primary].failoverCount + 1
       /\ PrimarySucceeds(r) =>
            \A s \in Servers :
              metrics'[s].failoverCount = metrics[s].failoverCount]_vars

(***************************************************************************)
(* The active-client count.                                                *)
(***************************************************************************)
\* the clients whose last attempt is less than 30 s old
RecentClients ==
  {c \in DOMAIN syncHistory :
     /\ syncHistory[c] # <<>>
     /\ NumLess(NumSub(DateNow(now), FromInt(30000)),
                syncHistory[c][Len(syncHistory[c])].clientTime)}

\* C19: the reported active-client count is the number of clients whose
\* last attempt was made within the last 30 seconds, and 0 when there is no
\* such client
ActiveCountIsRecentClients ==
  getActiveClientsCount(syncHistory, DateNow(now)) = Cardinality(RecentClients)

(***************************************************************************)
(* The order of a client's history.                                        *)
(***************************************************************************)
\* request r returns a synchronisation result in this step
Completes(r) ==
  slot[r].pc # "done" /\ slot'[r].pc = "done" /\ slot'[r].response.status # 400

\* C20: a request that completes puts its attempt at the end of its
\* client's history and leaves the entries before it and the other
\* histories as they were, so that a history is in the order of completion,
\* also when the request that completes first was issued later
CompletionAppends ==
  [][/\ \A r \in Slots :
          Completes(r) =>
            LET c == slot'[r].clientId
            IN  /\ c \in DOMAIN syncHistory'
                /\ syncHistory'[c] = Append(HistoryOf(c), slot'[r].response.syncResult)
                /\ \A d \in DOMAIN syncHistory' \ {c} :
                     d \in DOMAIN syncHistory /\ syncHistory'[d] = syncHistory[d]
     /\ (\A r \in Slots : ~Completes(r)) => syncHistory' = syncHistory]_vars

\* two overlapping requests of one client: the second one issued has
\* completed first and is first in the history
LaterIssuedFirstInHistory ==
  /\ slot[1].pc = "done" /\ slot[2].pc = "done"
  /\ slot[1].clientId = "c1" /\ slot[2].clientId = "c1"
  /\ slot[1].response.status # 400 /\ slot[2].response.status # 400
  /\ slot[1].response.syncResult # slot[2].response.syncResult
  /\ syncHistory["c1"] = <<slot[2].response.syncResult, slot[1].response.syncResult>>

(***************************************************************************)
(* A forced failure of the primary.                                        *)
(***************************************************************************)
\* the setTimeout callback of forced failure f runs in this step
ForceExpires(f) == f \in forceTimers /\ f \notin forceTimers'

\* C21: from a forced failure of the primary for d ms until d ms have
\* elapsed no call reaches the primary's NTP server and the requests that
\* succeed are answered by the secondary; the primary's breaker is closed
\* again when d ms have elapsed and not before
ForcedOpenLastsItsDuration ==
  [][\A f \in forceTimers :
       f.server = Primary =>
         IF ForceExpires(f) THEN breaker'[Primary].state = "closed"
         ELSE /\ ntpCalls'[Primary] = ntpCalls[Primary]
              /\ breaker'[Primary].state # "closed"
              /\ \A r \in Slots :
                   (Arrives(r) /\ slot'[r].pc = "done") =>
                     slot'[r].response.syncResult.server # Primary]_vars

(***************************************************************************)
(* Requests without a request time.                                        *)
(***************************************************************************)
\* request r arrives in this step and carries no clientRequestTime
NoRequestTime(r) == r = started + 1 /\ started' = r /\ slot'[r].T0 = Zero

\* C22: a sync request without clientRequestTime is answered with a 400
\* error and changes nothing in the engine: no history is created or
\* extended, no metric is updated, no breaker is fired, no NTP server is
\* called and the active server stays
BadRequestChangesNothing ==
  [][\A r \in Slots :
       NoRequestTime(r) =>
         /\ slot'[r].pc = "done"
         /\ slot'[r].response.status = 400
         /\ ~slot'[r].response.success
         /\ UNCHANGED <<syncHistory, metrics, breaker, activeServer,
                        lastSyncAttempt, ntpCalls, samples, before>>]_vars

\* a request without a request time was turned away while another one was
\* waiting for the primary
RejectedWhileOtherWaits ==
  /\ slot[2].response.status = 400
  /\ slot[1].pc = "waitPrimary"
  /\ ntpCalls[Primary] = 1
  /\ metrics[Primary].activeClients = 1
  /\ DOMAIN syncHistory = {}

(***************************************************************************)
(* The in-memory log of the Logger.                                        *)
(***************************************************************************)
MaxLogged == 1003

maxLogs == 1000
LogLevels == <<"ERROR", "WARN", "INFO", "DEBUG", "TRACE">>

\* a plausible slip: the oldest maxLogs entries are kept
MutAddLog(logs, logEntry) ==
  LET all == Append(logs, logEntry)
  IN  IF Len(all) > maxLogs THEN SubSeq(all, 1, maxLogs) ELSE all

\* this.logs.push(logEntry); if (length > maxLogs) logs = logs.slice(-maxLogs)
addLog(logs, logEntry) ==
  LET all == Append(logs, logEntry)
  IN  IF Len(all) > maxLogs THEN SubSeq(all, Len(all) - maxLogs + 1, Len(all))
      ELSE all

\* the k-th entry logged: told apart by its message
KthLog(k) == [level |-> LogLevels[(k % 5) + 1], message |-> k]

InitLog ==
  /\ EngineInit
  /\ pure = NoPure
  /\ pushed = [c \in {} |-> <<>>]

\* logger.error / warn / info / debug / trace
AddLog ==
  /\ pure.added < MaxLogged
  /\ pure' = [pure EXCEPT !.op = "log",
                          !.added = @ + 1,
                          !.logs = addLog(@, KthLog(pure.added + 1))]
  /\ UNCHANGED <<engineVars, pushed>>

NextLog == AddLog

SpecLog == InitLog /\ [][NextLog]_vars

\* C23: the log never holds more than 1000 entries; it holds the last
\* min(n, 1000) of the n entries added, in the order in which they were
\* added, so that an entry added to a full log drops the oldest one
LogIsLastThousand ==
  LET n == pure.added
      logs == pure.logs
  IN  /\ Len(logs) <= 1000
      /\ Len(logs) = (IF n < 1000 THEN n ELSE 1000)
      /\ \A i \in 1..Len(logs) : logs[i].message = n - Len(logs) + i

\* the 1002nd entry was added: the first two are gone
TwoOldestDropped ==
  /\ pure.added = 1002
  /\ Len(pure.logs) = 1000
  /\ pure.logs[1].message = 3
  /\ pure.logs[1000].message = 1002

(***************************************************************************)
(* Termination of a request.                                               *)
(***************************************************************************)
\* the call request r is waiting for replies, fails or is cut off by the
\* breaker's timeout
Settle(r) ==
  \/ \E t \in ReplyTimes, rtt \in NetRtts, d \in BOOLEAN : NtpReply(r, t, rtt, d)
  \/ \E d \in BOOLEAN : NtpError(r, d)
  \/ \E d \in BOOLEAN : BreakerTimeout(r, d)

\* the engine under the assumption that every call made through a breaker
\* settles
SpecLive ==
  /\ Init
  /\ [][CoreNext]_vars
  /\ \A r \in Slots : WF_vars(Settle(r))

\* C24: every request that was taken up returns; it makes at most one call
\* through the primary's breaker and at most one through the secondary's,
\* and the secondary is only tried after the primary
SyncReturns ==
  /\ [](\A r \in Slots :
          /\ slot[r].firedP <= 1 /\ slot[r].firedS <= 1
          /\ slot[r].firedS = 1 => slot[r].firedP = 1)
  /\ \A r \in Slots : (slot[r].pc # "idle") ~> (slot[r].pc = "done")

\* a request has returned after the timeout cut off its call to the primary
\* and then its call to the secondary
ReturnedAfterTwoTimeouts ==
  \E r \in Slots :
    /\ slot[r].pc = "done"
    /\ slot[r].firedP = 1 /\ slot[r].firedS = 1
    /\ slot[r].primaryError = TimeoutError
    /\ slot[r].secondaryError = TimeoutError

(***************************************************************************)
(* The activeClients gauge.                                                *)
(***************************************************************************)
\* C25: the activeClients gauge of each server is the number of calls to
\* that server that are in flight, at every state and also when resetMetrics
\* runs during a call; it is never negative and is 0 when no call to the
\* server is in flight
GaugeIsCallsInFlight ==
  \A s \in Servers :
    /\ metrics[s].activeClients >= 0
    /\ metrics[s].activeClients = Cardinality(InFlight(s))

(***************************************************************************)
(* The active server under concurrent requests.                            *)
(***************************************************************************)
\* request r returns a successful result in this step
CompletesWell(r) == Completes(r) /\ slot'[r].response.syncResult.success

\* C26: the active server is the server of the most recently completed
\* successful attempt: a request that completes successfully leaves the mark
\* on the server that answered it and no other step moves the mark; and
\* when the last recorded attempt was successful the active server is that
\* attempt's server; in every interleaving of concurrent requests
ActiveIsLastSuccess ==
  /\ [](lastSyncAttempt.success => activeServer = lastSyncAttempt.server)
  /\ [][IF \E r \in Slots : CompletesWell(r)
        THEN \A r \in Slots :
               CompletesWell(r) =>
                 activeServer' = slot'[r].response.syncResult.server
        ELSE activeServer' = activeServer]_vars

\* two overlapping requests, none in flight any more: the one issued second
\* was answered by the primary, the one issued first by the secondary after
\* its failover, and later
SecondaryAnsweredLast ==
  /\ \A r \in Slots : slot[r].pc = "done"
  /\ slot[2].response.syncResult.success
  /\ slot[2].response.syncResult.server = Primary
  /\ slot[1].response.syncResult.success
  /\ slot[1].response.syncResult.server = Secondary
  /\ activeServer = Secondary
  /\ lastSyncAttempt = [server |-> Secondary, timestamp |-> DateNow(now),
                        success |-> TRUE]

(***************************************************************************)
(* Repeated forced failures: the admin route called several times, with    *)
(* one request.                                                            *)
(***************************************************************************)
MaxForced == 2
MaxForceAdmin == 3
MaxForceSyncs == 1

\* POST /api/time/admin/simulate-failure {action: 'fail-primary', duration}
FailPrimaryAgain(duration) ==
  /\ admins < MaxForceAdmin
  /\ admins' = admins + 1
  /\ Cardinality(forceTimers) < MaxForced
  /\ LET id == CHOOSE k \in 1..MaxForced : \A f \in forceTimers : f.id # k
     IN  Commit(ForceFailure(World, Primary, duration, id))
  /\ UNCHANGED <<now, slot, started, syncHistory, orphans, lateSeen, resets,
                 pure, pushed>>

\* POST /api/time/admin/simulate-failure {action: 'restore'}
RestoreAgain ==
  /\ admins < MaxForceAdmin
  /\ admins' = admins + 1
  /\ Commit(RestoreService(World, Primary))
  /\ UNCHANGED <<now, slot, started, syncHistory, orphans, lateSeen, resets,
                 pure, pushed>>

NextForce ==
  \/ CoreNext /\ started' <= MaxForceSyncs
  \/ \E d \in ForceDurations : FailPrimaryAgain(d)
  \/ RestoreAgain
  \/ \E f \in forceTimers : ForceTimerFires(f)

SpecForce == Init /\ [][NextForce]_vars

\* C27: the timer of a forceFailure call closes a breaker only when that
\* call is the most recent forceFailure call on it and the breaker was not
\* opened again since, by a newer forceFailure or by failing calls; the
\* timer of an earlier call, or of one superseded by restoreService, closes
\* nothing
OnlyLatestForceTimerCloses ==
  [][\A f \in forceTimers :
       (/\ ForceExpires(f)
        /\ breaker[f.server].state # "closed"
        /\ breaker'[f.server].state = "closed") =>
         breaker[f.server].forcedBy = f.id]_vars

(***************************************************************************)
(* The sign of the round trip.                                             *)
(***************************************************************************)
\* C28: every successful attempt has roundTripTime >= 0 and precision >= 0,
\* whatever request time the client sends, also one that is later than the
\* time T3 at which the server has the reply
RoundTripNeverNegative ==
  (pure.op \in {"primary", "failover"} /\ pure.result.success) =>
    /\ ~NumLess(pure.result.roundTripTime, Zero)
    /\ ~NumLess(pure.result.precision, Zero)

(***************************************************************************)
(* isReliable of the attempts the engine itself produces.                  *)
(***************************************************************************)
\* T3 - T0 in ms: around the limits 200 and 1000, and a client clock ahead
AttemptRtts == {-20, 0, 80, 199, 200, 201, 400, 999, 1000, 1500}
AttemptServerTimes ==
  {NumSub(Epoch, FromInt(1000)), NumAdd(Epoch, FromInt(3)),
   NumAdd(Epoch, FromInt(700))}

InitAttempt ==
  /\ EngineInit
  /\ pushed = [c \in {} |-> <<>>]
  /\ \E rtt \in AttemptRtts, serverTime \in AttemptServerTimes :
       pure = [NoPure EXCEPT !.T0 = NumSub(Epoch, FromInt(rtt)),
                             !.T3 = Epoch,
                             !.serverTime = serverTime]

\* the result of cristianSyncAlgorithm on one of its three paths, and the
\* isReliable syncTime answers with
Produce(path) ==
  /\ pure.op = "none"
  /\ LET syncResult ==
           CASE path = "primary" ->
                  PrimaryResult(pure.T0, pure.serverTime, pure.roundTripTime, pure.T3)
             [] path = "failover" ->
                  FailoverResult(pure.T0, pure.serverTime, pure.roundTripTime, pure.T3)
             [] path = "failed" ->
                  BothFailedResult(ConnectError(Primary), TimeoutError, pure.T3)
     IN  pure' = [pure EXCEPT !.op = path,
                              !.result = syncResult,
                              !.reliable = Respond(syncResult).isReliable]
  /\ UNCHANGED <<engineVars, pushed>>

NextAttempt == \E path \in {"primary", "failover", "failed"} : Produce(path)

SpecAttempt == InitAttempt /\ [][NextAttempt]_vars

MaxHookOps == 3
MaxIssued == 2

initialInterval == 30
\* z.number().min(1).max(300)
HookIntervals == {2, 30}

InitialHook ==
  [isEnabled |-> FALSE, interval |-> initialInterval, nextSyncIn |-> 0,
   intervalRef |-> 0, countdownRef |-> 0,
   timers |-> {}, timeouts |-> {}, nextId |-> 1, ops |-> 0, issued |-> 0]

clearInterval(h, id) == [h EXCEPT !.timers = {t \in @ : t.id # id}]

\* setNextSyncIn(interval); countdownRef.current = window.setInterval(.., 1000)
startCountdown(h, interval) ==
  [h EXCEPT !.nextSyncIn = interval,
            !.countdownRef = h.nextId,
            !.timers = @ \cup {[id |-> h.nextId, kind |-> "countdown",
                                seconds |-> interval]},
            !.nextId = @ + 1]

stopCountdown(h) ==
  [clearInterval(h, h.countdownRef) EXCEPT !.countdownRef = 0, !.nextSyncIn = 0]

\* `interval` is the value the callback closed over
startAutoSync(h, interval) ==
  LET h1 == clearInterval(h, h.intervalRef)
      h2 == [h1 EXCEPT !.intervalRef = h1.nextId,
                       !.timers = @ \cup {[id |-> h1.nextId, kind |-> "sync",
                                           seconds |-> interval]},
                       !.nextId = @ + 1]
  IN  startCountdown(h2, interval)

stopAutoSync(h) ==
  stopCountdown([clearInterval(h, h.intervalRef) EXCEPT !.intervalRef = 0])

\* what a hook action leaves alone
HookStep(h) ==
  /\ pure' = [pure EXCEPT !.hook = h]
  /\ UNCHANGED <<engineVars, pushed>>

InitHook ==
  /\ EngineInit
  /\ pushed = [c \in {} |-> <<>>]
  /\ pure = [NoPure EXCEPT !.hook = InitialHook]

\* the checkbox: autoSync.toggle
Toggle ==
  LET h == pure.hook
      newState == ~h.isEnabled
      h1 == IF newState THEN startAutoSync(h, h.interval) ELSE stopAutoSync(h)
  IN  /\ h.ops < MaxHookOps
      /\ HookStep([h1 EXCEPT !.isEnabled = newState, !.ops = @ + 1])

\* handleSettingsSubmit with a changed syncInterval: autoSync.setInterval,
\* then the render with the new interval and its effect
SetInterval(newInterval) ==
  LET h == pure.hook
      h1 == [h EXCEPT !.interval = newInterval, !.ops = @ + 1]
      \* setTimeout(() => startAutoSync(), 100) with the callback of this render
      h2 == IF h.isEnabled
            THEN [stopAutoSync(h1) EXCEPT
                    !.timeouts = @ \cup {[id |-> h1.nextId, interval |-> h.interval]},
                    !.nextId = @ + 1]
            ELSE h1
      \* useEffect(.., [interval])
      h3 == IF h2.isEnabled THEN startAutoSync(stopAutoSync(h2), newInterval)
            ELSE h2
  IN  /\ h.ops < MaxHookOps
      /\ newInterval # h.interval
      /\ HookStep(h3)

\* the 100 ms timeout of setInterval runs
RestartTimeoutFires(t) ==
  LET h == pure.hook
  IN  /\ t \in h.timeouts
      /\ HookStep(startAutoSync([h EXCEPT !.timeouts = @ \ {t}], t.interval))

\* a periodic sync timer fires: performSync
SyncTimerFires(t) ==
  LET h == pure.hook
  IN  /\ t \in h.timers /\ t.kind = "sync"
      /\ h.issued < MaxIssued
      /\ HookStep([h EXCEPT !.issued = @ + 1])

\* a countdown timer fires
CountdownFires(t) ==
  LET h == pure.hook
  IN  /\ t \in h.timers /\ t.kind = "countdown"
      /\ HookStep([h EXCEPT !.nextSyncIn = IF @ <= 1 THEN t.seconds ELSE @ - 1])

NextHook ==
  \/ Toggle
  \/ \E n \in HookIntervals : SetInterval(n)
  \/ \E t \in pure.hook.timeouts : RestartTimeoutFires(t)
  \/ \E t \in pure.hook.timers : SyncTimerFires(t)
  \/ \E t \in pure.hook.timers : CountdownFires(t)

SpecHook == InitHook /\ [][NextHook]_vars

\* C30: at most one periodic sync timer and at most one countdown timer are
\* active, an active sync timer runs at the interval that is configured, and
\* no timer is active while auto-sync is disabled
AutoSyncTimersInOrder ==
  LET h == pure.hook
  IN  /\ Cardinality({t \in h.timers : t.kind = "sync"}) <= 1
      /\ Cardinality({t \in h.timers : t.kind = "countdown"}) <= 1
      /\ \A t \in h.timers : t.kind = "sync" => t.seconds = h.interval
      /\ ~h.isEnabled => h.timers = {}

====
